---- MODULE Spec2Model ----
(***************************************************************************)
(* A model of scripts/strip_iop.py: the tool that strips GUI code from a   *)
(* darktable IOP translation unit.                                         *)
(*                                                                         *)
(* A source line is a record of what the script's regular expressions and  *)
(* substring tests yield on that line.  1-based line numbers are used      *)
(* throughout (the script is 0-based); NoEnd stands for None.              *)
(*                                                                         *)
(* The fields id, owner, role and grp of a line are history fields: they   *)
(* record where a line came from in the input and are read only by the     *)
(* properties, never by the definitions that model the script.             *)
(***************************************************************************)
EXTENDS Integers, Sequences, FiniteSets, TLC

\* ---------------------------------------------------------------------------
\* Configuration (strip_iop.py, lines 31-77)
\* ---------------------------------------------------------------------------

GUI_FUNCTION_NAMES ==
    { "gui_init", "gui_cleanup", "gui_update", "gui_changed", "gui_reset",
      "gui_focus", "color_picker_apply", "mouse_moved", "mouse_pressed",
      "mouse_released", "mouse_scrolled", "mouse_leave", "mouse_actions" }

GUI_FUNCTION_PREFIXES == { "gui_" }

KEEP_FUNCTIONS ==
    { "process", "process_cl", "init", "cleanup", "commit_params", "init_pipe",
      "cleanup_pipe", "init_global", "cleanup_global", "modify_roi_in",
      "modify_roi_out", "distort_transform", "distort_backtransform",
      "distort_mask", "name", "aliases", "description", "default_group",
      "flags", "default_colorspace", "input_colorspace", "output_colorspace",
      "blend_colorspace", "legacy_params", "init_presets", "reload_defaults",
      "tiling_callback" }

\* ---------------------------------------------------------------------------
\* Bounds of the model
\* ---------------------------------------------------------------------------

\* Largest number of top-level items (declarations, definitions) in a file.
MaxItems == 3

\* Largest number of statements in the body given to the rewriter on its own.
MaxStmts == 2

\* ---------------------------------------------------------------------------
\* Lines
\* ---------------------------------------------------------------------------

NoName == ""
NoEnd == 0

\* The fields of a line, with the values of a line that matches nothing.
Base ==
    [ id |-> 0, owner |-> NoName, role |-> "other", grp |-> 0,
      sig |-> NoName, static |-> FALSE, fwd |-> FALSE, rparen |-> FALSE,
      semi |-> FALSE, braces |-> <<>>, words |-> {}, tok |-> FALSE,
      decl |-> NoName, gd |-> FALSE, pat |-> "none", var |-> NoName,
      els |-> FALSE, ind |-> 2, inc |-> FALSE, cinc |-> FALSE,
      gstruct |-> FALSE, widget |-> "none", stray |-> FALSE, blank |-> FALSE ]

\* "  compute(x);"
Stmt == [Base EXCEPT !.fwd = TRUE]

\* "static void n(dt_iop_module_t *self)" / "void n(dt_iop_module_t *self)"
Sig(n, st) ==
    [Base EXCEPT !.sig = n, !.static = st, !.rparen = TRUE, !.words = {n},
                 !.ind = 0, !.role = "sig", !.owner = n]

\* "{" and "}" at indentation k
Open(k) == [Base EXCEPT !.braces = <<1>>, !.ind = k]
Close(k) == [Base EXCEPT !.braces = <<-1>>, !.ind = k]

\* "  GtkWidget *w = NULL;"
Tok == [Base EXCEPT !.tok = TRUE, !.ind = 2]

\* "  m(self);" at indentation k
Call(m, k) == [Base EXCEPT !.fwd = TRUE, !.words = {m}, !.ind = k]

\* "static void n(dt_iop_module_t *self);" / "void n(dt_iop_module_t *self);"
Fwd1(n, st) ==
    [Base EXCEPT !.sig = n, !.static = st, !.fwd = TRUE, !.words = {n},
                 !.decl = IF st THEN n ELSE NoName, !.ind = 0,
                 !.role = "decl", !.owner = n]

\* "static void n(dt_iop_module_t *self," followed by "    const int x);"
FwdA(n, st) ==
    [Base EXCEPT !.sig = n, !.static = st, !.words = {n}, !.ind = 0,
                 !.role = "decl", !.owner = n]
FwdB(n) == [Base EXCEPT !.fwd = TRUE, !.ind = 4, !.role = "decl", !.owner = n]

\* ";" alone on a line, closing the declaration begun on the line before
Semi(n) == [Base EXCEPT !.semi = TRUE, !.ind = 0, !.role = "decl", !.owner = n]

\* #include "bauhaus/bauhaus.h"     and     // #include "gui/gtk.h"
Inc == [Base EXCEPT !.inc = TRUE, !.ind = 0, !.role = "gui"]
CInc == [Base EXCEPT !.cinc = TRUE, !.ind = 0, !.role = "gui"]

\* "typedef struct dt_iop_x_gui_data_t" ... "} dt_iop_x_gui_data_t;"
StructStart == [Base EXCEPT !.gstruct = TRUE, !.tok = TRUE, !.gd = TRUE, !.ind = 0]
StructEnd == [Base EXCEPT !.braces = <<-1>>, !.tok = TRUE, !.gd = TRUE, !.ind = 0]

\* "  dt_iop_x_gui_data_t *g = self->gui_data;"
Bind ==
    [Base EXCEPT !.pat = "bind", !.var = "g", !.tok = TRUE, !.gd = TRUE,
                 !.stray = TRUE, !.role = "kw"]

\* "  ((dt_iop_x_gui_data_t *)self->gui_data)->dirty = 1;"
CastMut ==
    [Base EXCEPT !.pat = "castmut", !.tok = TRUE, !.gd = TRUE, !.stray = TRUE,
                 !.role = "kw"]

\* "  g->dirty = 1;"
GMut == [Base EXCEPT !.pat = "gmut", !.var = "g", !.role = "gmut"]

\* "  if(self->gui_data)"
IfRes == [Base EXCEPT !.pat = "ifres", !.gd = TRUE, !.rparen = TRUE, !.role = "kw"]

\* "  if(self->gui_data) m(self);"
IfResCall(m) ==
    [Base EXCEPT !.pat = "ifres", !.gd = TRUE, !.fwd = TRUE, !.words = {m},
                 !.role = "kw"]

\* "  if(self->gui_data) { m(self); }"
IfRes1(m) ==
    [Base EXCEPT !.pat = "ifres1", !.gd = TRUE, !.words = {m},
                 !.braces = <<1, -1>>, !.role = "kw"]

\* "  if(g)"     "  if(g && on)"     "  if(on && g)"
IfG == [Base EXCEPT !.pat = "ifg", !.var = "g", !.rparen = TRUE, !.role = "kw"]
IfGAnd == [Base EXCEPT !.pat = "ifgand", !.var = "g", !.rparen = TRUE, !.role = "kw"]
IfAndG == [Base EXCEPT !.pat = "ifandg", !.var = "g", !.rparen = TRUE, !.role = "kw"]

\* "  if(g) {"     "  } else {"     "  else"
IfGK == [Base EXCEPT !.pat = "ifg", !.var = "g", !.braces = <<1>>, !.role = "kw"]
ElseK == [Base EXCEPT !.braces = <<-1, 1>>, !.role = "kw"]
Else == [Base EXCEPT !.els = TRUE, !.role = "kw"]

\* "  for(int k = 0; k < n; k++)"
For == [Base EXCEPT !.rparen = TRUE]

\* "  if(self->widget) gtk_widget_queue_draw(self->widget);"
\* "  gtk_widget_queue_draw(self->widget);"
IfWidget == [Base EXCEPT !.widget = "if", !.tok = TRUE, !.fwd = TRUE]
WidgetCall == [Base EXCEPT !.widget = "call", !.tok = TRUE, !.fwd = TRUE]

\* an empty line
Blank == [Base EXCEPT !.blank = TRUE, !.ind = 0]

\* lines tagged as belonging to the definition of n / with a role / a group
Own(seq, n) ==
    [i \in 1..Len(seq) |-> [seq[i] EXCEPT !.owner = n]]
As(seq, r) ==
    [i \in 1..Len(seq) |-> [seq[i] EXCEPT !.role = r]]
Grp(seq, g) ==
    [i \in 1..Len(seq) |-> [seq[i] EXCEPT !.grp = g]]
WithIds(seq) ==
    [i \in 1..Len(seq) |-> [seq[i] EXCEPT !.id = i]]

Ids(seq) == { seq[i].id : i \in 1..Len(seq) }

\* ---------------------------------------------------------------------------
\* Brace matching (strip_iop.py, find_brace_block_end)
\* The field braces is the sequence of '{' (1) and '}' (-1) left on the line
\* once _strip_strings_and_chars and the // cut have been applied.
\* ---------------------------------------------------------------------------

RECURSIVE ScanBraces(_, _, _, _)
ScanBraces(br, k, depth, found_open) ==
    IF k > Len(br)
    THEN [hit |-> FALSE, depth |-> depth, found_open |-> found_open]
    ELSE IF br[k] = 1
         THEN ScanBraces(br, k + 1, depth + 1, TRUE)
         ELSE IF found_open /\ depth - 1 = 0
              THEN [hit |-> TRUE, depth |-> 0, found_open |-> TRUE]
              ELSE ScanBraces(br, k + 1, depth - 1, found_open)

RECURSIVE FindEnd(_, _, _, _)
FindEnd(lines_, i, depth, found_open) ==
    IF i > Len(lines_)
    THEN NoEnd
    ELSE LET r == ScanBraces(lines_[i].braces, 1, depth, found_open)
         IN  IF r.hit THEN i ELSE FindEnd(lines_, i + 1, r.depth, r.found_open)

find_brace_block_end(lines_, start_idx) == FindEnd(lines_, start_idx, 0, FALSE)

\* ---------------------------------------------------------------------------
\* Line classifiers and function detection
\* ---------------------------------------------------------------------------

is_gui_include(line) == line.inc

is_commented_gui_include(line) == line.cinc

is_gui_data_struct_start(line) == line.gstruct

\* is_forward_declaration(line): the stripped line ends with ")" ";"
is_forward_declaration(line) == line.fwd

\* is_forward_declaration(a + b): "." does not match the newline between the
\* two lines, so the join matches only when a ends with ")" and b is ";"
\* alone (or a already matched and b is blank).
is_forward_declaration_joined(a, b) ==
    \/ a.rparen /\ b.semi
    \/ a.fwd /\ b.blank

get_function_name(line) == [name |-> line.sig, is_static |-> line.static]

StartsWith(s, p) == Len(s) >= Len(p) /\ SubSeq(s, 1, Len(p)) = p

is_explicitly_gui_function(name) ==
    \/ name \in GUI_FUNCTION_NAMES
    \/ \E prefix \in GUI_FUNCTION_PREFIXES : StartsWith(name, prefix)

\* function_body_has_gui_tokens("\n".join(lines[start : end + 1]))
function_body_has_gui_tokens(lines_, start, end) ==
    \E j \in start..end : lines_[j].tok

\* ---------------------------------------------------------------------------
\* Function map
\* ---------------------------------------------------------------------------

EmptyMap == [n \in {} |-> [start |-> 0, end |-> 0, is_static |-> FALSE]]

Put(fm, name, span) ==
    [n \in DOMAIN fm \cup {name} |-> IF n = name THEN span ELSE fm[n]]

RECURSIVE BuildMap(_, _, _)
BuildMap(lines_, i, fm) ==
    IF i > Len(lines_)
    THEN fm
    ELSE LET f == get_function_name(lines_[i])
         IN  IF f.name = NoName
             THEN BuildMap(lines_, i + 1, fm)
             ELSE IF is_forward_declaration(lines_[i])
                  THEN BuildMap(lines_, i + 1, fm)
                  ELSE IF i + 1 <= Len(lines_)
                          /\ is_forward_declaration_joined(lines_[i], lines_[i + 1])
                       THEN BuildMap(lines_, i + 1, fm)
                       ELSE LET end == find_brace_block_end(lines_, i)
                            IN  IF end # NoEnd
                                THEN BuildMap(lines_, end + 1,
                                        Put(fm, f.name,
                                            [start |-> i, end |-> end,
                                             is_static |-> f.is_static]))
                                ELSE BuildMap(lines_, i + 1, fm)

build_function_map(lines_) == BuildMap(lines_, 1, EmptyMap)

\* ---------------------------------------------------------------------------
\* References
\* ---------------------------------------------------------------------------

InSpan(fm, n, j) == fm[n].start <= j /\ j <= fm[n].end

\* the lines of every function of the map are skipped, not only the lines of
\* the functions of skip_set
has_ref_outside_functions(name, lines_, fm, skip_set) ==
    IF name \notin DOMAIN fm
    THEN TRUE
    ELSE \E j \in 1..Len(lines_) :
            /\ ~(\E sn \in DOMAIN fm : InSpan(fm, sn, j))
            /\ lines_[j].decl # name
            /\ name \in lines_[j].words

has_external_ref(name, lines_, fm, skip_set) ==
    IF name \notin DOMAIN fm
    THEN TRUE
    ELSE \E j \in 1..Len(lines_) :
            /\ ~InSpan(fm, name, j)
            /\ ~(\E sn \in skip_set : sn \in DOMAIN fm /\ InSpan(fm, sn, j))
            /\ lines_[j].decl # name
            /\ name \in lines_[j].words

\* ---------------------------------------------------------------------------
\* Stripping gui_data references in kept functions
\* (strip_iop.py, strip_gui_data_in_function)
\* ---------------------------------------------------------------------------

\* while next_i <= func_end and lines[next_i].strip() == "": next_i += 1
RECURSIVE SkipBlank(_, _, _)
SkipBlank(lines_, next_i, func_end) ==
    IF next_i <= func_end /\ lines_[next_i].blank
    THEN SkipBlank(lines_, next_i + 1, func_end)
    ELSE next_i

\* while else_open <= else_block_end: if "{" in lines[else_open]: break
RECURSIVE FindOpen(_, _, _)
FindOpen(lines_, else_open, else_block_end) ==
    IF else_open <= else_block_end
       /\ ~(\E k \in 1..Len(lines_[else_open].braces) :
                lines_[else_open].braces[k] = 1)
    THEN FindOpen(lines_, else_open + 1, else_block_end)
    ELSE else_open

\* the re-indentation of one line of an else body, indent the if's indentation
Reindent(eline, indent) ==
    IF eline.ind >= indent + 4 /\ ~eline.blank
    THEN [eline EXCEPT !.ind = @ - 4]
    ELSE IF eline.ind >= indent + 2 /\ ~eline.blank
         THEN [eline EXCEPT !.ind = @ - 2]
         ELSE eline

ElseBody(lines_, else_open, else_block_end, indent) ==
    [k \in 1..(else_block_end - else_open - 1) |->
        Reindent(lines_[else_open + k], indent)]

\* the regular expressions built from gui_data_var match the line
MatchesVar(line, gui_data_var, pat) ==
    gui_data_var # NoName /\ line.pat = pat /\ line.var = gui_data_var

RECURSIVE StripFrom(_, _, _, _, _)
StripFrom(lines_, i, func_end, gui_data_var, result) ==
    IF i > func_end
    THEN result
    ELSE
    LET line == lines_[i]
        block_end == find_brace_block_end(lines_, i)
        block_ok == block_end # NoEnd /\ block_end <= func_end
        next_i == SkipBlank(lines_, block_end + 1, func_end)
        has_else == next_i <= func_end /\ lines_[next_i].els
        else_block_end == find_brace_block_end(lines_, next_i)
        else_open == FindOpen(lines_, next_i, else_block_end)
    IN
    IF line.pat = "bind"
    THEN StripFrom(lines_, i + 1, func_end, line.var, result)
    ELSE IF line.pat = "castmut"
    THEN StripFrom(lines_, i + 1, func_end, gui_data_var, result)
    ELSE IF line.pat = "ifres1"
    THEN StripFrom(lines_, i + 1, func_end, gui_data_var, result)
    ELSE IF line.pat = "ifres" /\ block_ok
    THEN StripFrom(lines_, block_end + 1, func_end, gui_data_var, result)
    ELSE IF MatchesVar(line, gui_data_var, "ifg") /\ block_ok
    THEN IF has_else /\ else_block_end # NoEnd /\ else_block_end <= func_end
         THEN StripFrom(lines_, else_block_end + 1, func_end, gui_data_var,
                  result \o ElseBody(lines_, else_open, else_block_end, line.ind))
         ELSE StripFrom(lines_, block_end + 1, func_end, gui_data_var, result)
    ELSE IF MatchesVar(line, gui_data_var, "ifgand") /\ block_ok
    THEN StripFrom(lines_, block_end + 1, func_end, gui_data_var, result)
    ELSE IF MatchesVar(line, gui_data_var, "ifandg") /\ block_ok
    THEN StripFrom(lines_, block_end + 1, func_end, gui_data_var, result)
    ELSE IF MatchesVar(line, gui_data_var, "gmut")
    THEN StripFrom(lines_, i + 1, func_end, gui_data_var, result)
    ELSE StripFrom(lines_, i + 1, func_end, gui_data_var, Append(result, line))

strip_gui_data_in_function(lines_, func_start, func_end) ==
    StripFrom(lines_, func_start, func_end, NoName, <<>>)

\* ---------------------------------------------------------------------------
\* Forward declaration cleanup (strip_iop.py, remove_forward_declarations)
\* ---------------------------------------------------------------------------

remove_forward_declarations(lines_, removed_names) ==
    SelectSeq(lines_, LAMBDA line : ~(line.decl # NoName /\ line.decl \in removed_names))

\* ---------------------------------------------------------------------------
\* The passes of strip_iop
\* ---------------------------------------------------------------------------

\* Pass 2: remove includes, the gui_data_t struct, and the functions to remove
RECURSIVE Assemble(_, _, _, _)
Assemble(lines_, i, rm, out) ==
    IF i > Len(lines_)
    THEN out
    ELSE
    LET line == lines_[i]
        f == get_function_name(line)
        end == find_brace_block_end(lines_, i)
    IN
    IF is_gui_include(line)
    THEN Assemble(lines_, i + 1, rm, out)
    ELSE IF is_commented_gui_include(line)
    THEN Assemble(lines_, i + 1, rm, out)
    ELSE IF is_gui_data_struct_start(line) /\ end # NoEnd
    THEN Assemble(lines_, end + 1, rm, out)
    ELSE IF /\ f.name # NoName
            /\ f.name \in rm
            /\ f.name \notin KEEP_FUNCTIONS
            /\ ~is_forward_declaration(line)
            /\ end # NoEnd
    THEN Assemble(lines_, end + 1, rm, out)
    ELSE Assemble(lines_, i + 1, rm, Append(out, line))

remove_functions(lines_, rm) == Assemble(lines_, 1, rm, <<>>)

\* Pass 4: the functions of the assembled text that mention gui_data
funcs_to_strip(lines_, fm) ==
    { n \in DOMAIN fm : \E j \in fm[n].start..fm[n].end : lines_[j].gd }

\* output_lines[start : end + 1] = stripped_body, last function first
RECURSIVE StripAll(_, _, _)
StripAll(lines_, fm, todo) ==
    IF todo = {}
    THEN lines_
    ELSE LET n == CHOOSE x \in todo : \A y \in todo : fm[y].start <= fm[x].start
             stripped_body == strip_gui_data_in_function(lines_, fm[n].start, fm[n].end)
         IN  StripAll(SubSeq(lines_, 1, fm[n].start - 1) \o stripped_body
                         \o SubSeq(lines_, fm[n].end + 1, Len(lines_)),
                      fm, todo \ {n})

strip_kept_functions(lines_) ==
    LET kept_func_map == build_function_map(lines_)
    IN  StripAll(lines_, kept_func_map, funcs_to_strip(lines_, kept_func_map))

\* Pass 4b: self->widget lines
RECURSIVE CleanWidget(_, _, _)
CleanWidget(lines_, i, out) ==
    IF i > Len(lines_)
    THEN out
    ELSE IF lines_[i].widget = "if"
         THEN CleanWidget(lines_, i + 1,
                  Append(out, [Blank EXCEPT !.id = lines_[i].id,
                                            !.owner = lines_[i].owner]))
         ELSE IF lines_[i].widget = "call"
              THEN CleanWidget(lines_, i + 1, out)
              ELSE CleanWidget(lines_, i + 1, Append(out, lines_[i]))

clean_widget(lines_) == CleanWidget(lines_, 1, <<>>)

\* Pass 5, second half: remove the definitions of the orphans
RECURSIVE Cleaned(_, _, _, _)
Cleaned(lines_, i, orphans, out) ==
    IF i > Len(lines_)
    THEN out
    ELSE
    LET line == lines_[i]
        f == get_function_name(line)
        end == find_brace_block_end(lines_, i)
    IN
    IF /\ f.name # NoName
       /\ f.name \in orphans
       /\ ~is_forward_declaration(line)
       /\ end # NoEnd
    THEN Cleaned(lines_, end + 1, orphans, out)
    ELSE Cleaned(lines_, i + 1, orphans, Append(out, line))

remove_orphans(lines_, orphans) ==
    IF orphans = {}
    THEN lines_
    ELSE remove_forward_declarations(Cleaned(lines_, 1, orphans, <<>>), orphans)

\* Pass 6: stray gui_data lines
clean_lines(lines_) == SelectSeq(lines_, LAMBDA line : ~line.stray)

\* Pass 7: at most two blank lines in a row
RECURSIVE Collapse(_, _, _, _)
Collapse(lines_, i, blank_count, out) ==
    IF i > Len(lines_)
    THEN out
    ELSE IF lines_[i].blank
         THEN Collapse(lines_, i + 1, blank_count + 1,
                  IF blank_count + 1 <= 2 THEN Append(out, lines_[i]) ELSE out)
         ELSE Collapse(lines_, i + 1, 0, Append(out, lines_[i]))

final_lines(lines_) == Collapse(lines_, 1, 0, <<>>)

\* ---------------------------------------------------------------------------
\* Input files
\* A file is a sequence of at most MaxItems top-level items, in this order:
\* one declaration-like item, the definitions of helper, draw, gui_init and
\* process, and a definition of broken whose block is never closed.
\* ---------------------------------------------------------------------------

\* the definition of n: signature, "{", body, "}"
Def(n, st, body) ==
    Own(<<Sig(n, st), [Open(0) EXCEPT !.role = "open"]>> \o body
            \o <<[Close(0) EXCEPT !.role = "close"]>>, n)

\* "  if(self->gui_data)" "  {" "    m(self);" "  }"
Guarded(m) == <<IfRes, [Open(2) EXCEPT !.role = "kw"],
                [Call(m, 4) EXCEPT !.role = "A"], [Close(2) EXCEPT !.role = "kw"]>>

TokPart(tk) == IF tk THEN <<Tok>> ELSE <<>>
CallPart(m) == IF m = NoName THEN <<>> ELSE <<Call(m, 2)>>
Body(tk, m) == IF ~tk /\ m = NoName THEN <<Stmt>> ELSE TokPart(tk) \o CallPart(m)

DeclItems ==
    { <<Fwd1("gui_init", FALSE)>>,
      <<Fwd1("draw", TRUE)>>,
      <<FwdA("gui_init", FALSE), FwdB("gui_init")>>,
      <<FwdA("draw", TRUE), FwdB("draw")>>,
      <<[Sig("draw", TRUE) EXCEPT !.role = "decl"], Semi("draw")>>,
      <<Inc>>,
      <<CInc>>,
      As(<<StructStart, Open(0), Tok, StructEnd>>, "gui") }

HelperItems ==
    { Def("helper", TRUE, Body(tk, m)) : tk \in BOOLEAN, m \in {NoName, "draw"} }

DrawItems ==
    { Def("draw", st, Body(tk, m)) :
        st \in BOOLEAN, tk \in BOOLEAN, m \in {NoName, "helper"} }

GuiInitItems ==
    { Def("gui_init", FALSE, Body(TRUE, m)) : m \in {NoName, "helper", "draw"} }

ProcessItems ==
    { Def("process", FALSE, Body(tk, NoName)) : tk \in BOOLEAN }
    \cup { Def("process", FALSE, Body(FALSE, m)) : m \in {"helper", "draw"} }
    \cup { Def("process", FALSE, Guarded(m)) : m \in {"helper", "draw"} }
    \cup { Def("process", TRUE, Body(TRUE, NoName)) }

\* "static void broken(dt_iop_module_t *self)" "{" body, and no "}"
BrokenItems ==
    { Own(<<Sig("broken", TRUE), [Open(0) EXCEPT !.role = "open"], l>>, "broken") :
        l \in {Stmt, Bind, WidgetCall, IfWidget} }

Count(seqs) == Cardinality({ k \in 1..Len(seqs) : Len(seqs[k]) > 0 })

\* a declaration and the definition of the same name agree on static
SameLinkage(d, def) ==
    (Len(d) > 0 /\ Len(def) > 0 /\ d[1].sig = def[1].sig)
        => d[1].static = def[1].static

\* ---------------------------------------------------------------------------
\* State
\* ---------------------------------------------------------------------------

VARIABLES
    lines,          \* the text read from the input file
    pc,             \* the statement of strip_iop about to run
    func_map,       \* build_function_map(lines)
    to_remove,      \* the removal set
    visited,        \* the names the running for loop has visited
    changed,        \* the flag of the running while loop
    remaining_gui,  \* Phase 3
    can_remove,     \* Phase 3
    output_lines,   \* the text being assembled
    post_func_map,  \* Pass 5
    post_orphans,   \* Pass 5
    passes          \* how many times the body of each while loop was entered

vars == << lines, pc, func_map, to_remove, visited, changed, remaining_gui,
           can_remove, output_lines, post_func_map, post_orphans, passes >>

\* no while loop has been entered
NoPasses == [phase2 |-> 0, phase4 |-> 0, sweep |-> 0]

Fresh ==
    /\ passes = NoPasses
    /\ func_map = EmptyMap
    /\ to_remove = {}
    /\ visited = {}
    /\ changed = FALSE
    /\ remaining_gui = {}
    /\ can_remove = {}
    /\ post_func_map = EmptyMap
    /\ post_orphans = {}

Init ==
    /\ \E d \in DeclItems \cup {<<>>}, h \in HelperItems \cup {<<>>},
          w \in DrawItems \cup {<<>>}, g \in GuiInitItems \cup {<<>>},
          p \in ProcessItems \cup {<<>>}, b \in BrokenItems \cup {<<>>} :
            /\ Count(<<d, h, w, g, p, b>>) <= MaxItems
            /\ SameLinkage(d, w)
            /\ SameLinkage(d, g)
            /\ lines = WithIds(d \o h \o w \o g \o p \o b)
    /\ pc = "map"
    /\ output_lines = <<>>
    /\ Fresh

\* ---------------------------------------------------------------------------
\* Pass 1: find_all_functions_to_remove
\* ---------------------------------------------------------------------------

\* a loop that makes one pass instead of running to the fixed point
loop_once(changed_) == FALSE

\* while changed:
loop_again(changed_) == changed_

\* the filter without its "name in to_remove" test: a removed name is added
\* again on every pass
classifier_candidate_again(name, fm, rm) ==
    /\ name \notin KEEP_FUNCTIONS
    /\ fm[name].is_static

\* if name in to_remove or name in KEEP_FUNCTIONS or not is_static: continue
classifier_candidate(name, fm, rm) ==
    /\ name \notin rm
    /\ name \notin KEEP_FUNCTIONS
    /\ fm[name].is_static

\* the sweep's filter without its KEEP_FUNCTIONS test
sweep_candidate_unprotected(name, orphans) == name \notin orphans

\* if name in KEEP_FUNCTIONS or name in post_orphans: continue
sweep_candidate(name, orphans) ==
    /\ name \notin KEEP_FUNCTIONS
    /\ name \notin orphans

\* an assignment in place of the update
phase3_assign(rm, can) == can

\* to_remove.update(can_remove)
phase3_update(rm, can) == rm \cup can

\* only the removed functions are skipped, the other members are not
removed_only_skip(rm, remaining) == rm

\* combined_skip = to_remove | remaining_gui
combined_skip(rm, remaining) == rm \cup remaining

BuildFunctionMap ==
    /\ pc = "map"
    /\ func_map' = build_function_map(lines)
    /\ to_remove' = {}
    /\ visited' = {}
    /\ pc' = "phase1"
    /\ UNCHANGED << lines, passes, changed, remaining_gui, can_remove, output_lines,
                    post_func_map, post_orphans >>

Phase1Visit ==
    /\ pc = "phase1"
    /\ \E name \in DOMAIN func_map \ visited :
        /\ visited' = visited \cup {name}
        /\ to_remove' = IF name \notin KEEP_FUNCTIONS /\ is_explicitly_gui_function(name)
                        THEN to_remove \cup {name}
                        ELSE to_remove
    /\ UNCHANGED << lines, passes, pc, func_map, changed, remaining_gui, can_remove,
                    output_lines, post_func_map, post_orphans >>

Phase1End ==
    /\ pc = "phase1"
    /\ visited = DOMAIN func_map
    /\ visited' = {}
    /\ changed' = FALSE
    /\ pc' = "phase2"
    /\ passes' = [passes EXCEPT !.phase2 = 1]
    /\ UNCHANGED << lines, func_map, to_remove, remaining_gui, can_remove,
                    output_lines, post_func_map, post_orphans >>

Phase2Visit ==
    /\ pc = "phase2"
    /\ \E name \in DOMAIN func_map \ visited :
        /\ visited' = visited \cup {name}
        /\ IF /\ classifier_candidate(name, func_map, to_remove)
              /\ function_body_has_gui_tokens(lines, func_map[name].start,
                                              func_map[name].end)
              /\ ~has_external_ref(name, lines, func_map, to_remove)
           THEN to_remove' = to_remove \cup {name} /\ changed' = TRUE
           ELSE UNCHANGED << to_remove, changed >>
    /\ UNCHANGED << lines, passes, pc, func_map, remaining_gui, can_remove,
                    output_lines, post_func_map, post_orphans >>

Phase2EndPass ==
    /\ pc = "phase2"
    /\ visited = DOMAIN func_map
    /\ visited' = {}
    /\ changed' = FALSE
    /\ pc' = IF loop_again(changed) THEN "phase2" ELSE "phase3"
    /\ passes' = IF loop_again(changed)
                  THEN [passes EXCEPT !.phase2 = @ + 1]
                  ELSE passes
    /\ UNCHANGED << lines, func_map, to_remove, remaining_gui, can_remove,
                    output_lines, post_func_map, post_orphans >>

Phase3Collect ==
    /\ pc = "phase3"
    /\ remaining_gui' =
          { name \in DOMAIN func_map :
              /\ classifier_candidate(name, func_map, to_remove)
              /\ function_body_has_gui_tokens(lines, func_map[name].start,
                                              func_map[name].end) }
    /\ can_remove' = {}
    /\ visited' = {}
    /\ pc' = IF remaining_gui' # {} THEN "phase3visit" ELSE "phase4"
    /\ passes' = IF remaining_gui' # {}
                  THEN passes
                  ELSE [passes EXCEPT !.phase4 = 1]
    /\ UNCHANGED << lines, func_map, to_remove, changed, output_lines,
                    post_func_map, post_orphans >>

Phase3Visit ==
    /\ pc = "phase3visit"
    /\ \E name \in remaining_gui \ visited :
        /\ visited' = visited \cup {name}
        /\ can_remove' =
              IF ~has_external_ref(name, lines, func_map,
                                   combined_skip(to_remove, remaining_gui))
              THEN can_remove \cup {name}
              ELSE can_remove
    /\ UNCHANGED << lines, passes, pc, func_map, to_remove, changed, remaining_gui,
                    output_lines, post_func_map, post_orphans >>

Phase3Update ==
    /\ pc = "phase3visit"
    /\ visited = remaining_gui
    /\ to_remove' = phase3_update(to_remove, can_remove)
    /\ visited' = {}
    /\ pc' = "phase4"
    /\ passes' = [passes EXCEPT !.phase4 = 1]
    /\ UNCHANGED << lines, func_map, changed, remaining_gui, can_remove,
                    output_lines, post_func_map, post_orphans >>

Phase4Visit ==
    /\ pc = "phase4"
    /\ \E name \in DOMAIN func_map \ visited :
        /\ visited' = visited \cup {name}
        /\ IF /\ classifier_candidate(name, func_map, to_remove)
              /\ ~has_external_ref(name, lines, func_map, to_remove)
           THEN to_remove' = to_remove \cup {name} /\ changed' = TRUE
           ELSE UNCHANGED << to_remove, changed >>
    /\ UNCHANGED << lines, passes, pc, func_map, remaining_gui, can_remove,
                    output_lines, post_func_map, post_orphans >>

Phase4EndPass ==
    /\ pc = "phase4"
    /\ visited = DOMAIN func_map
    /\ visited' = {}
    /\ changed' = FALSE
    /\ pc' = IF loop_again(changed) THEN "phase4" ELSE "pass2"
    /\ passes' = IF loop_again(changed)
                  THEN [passes EXCEPT !.phase4 = @ + 1]
                  ELSE passes
    /\ UNCHANGED << lines, func_map, to_remove, remaining_gui, can_remove,
                    output_lines, post_func_map, post_orphans >>

\* ---------------------------------------------------------------------------
\* Passes 2 to 7 of strip_iop
\* ---------------------------------------------------------------------------

Pass2 ==
    /\ pc = "pass2"
    /\ output_lines' = remove_functions(lines, to_remove)
    /\ pc' = "pass3"
    /\ UNCHANGED << lines, passes, func_map, to_remove, visited, changed, remaining_gui,
                    can_remove, post_func_map, post_orphans >>

Pass3 ==
    /\ pc = "pass3"
    /\ output_lines' = remove_forward_declarations(output_lines, to_remove)
    /\ pc' = "pass4"
    /\ UNCHANGED << lines, passes, func_map, to_remove, visited, changed, remaining_gui,
                    can_remove, post_func_map, post_orphans >>

Pass4 ==
    /\ pc = "pass4"
    /\ output_lines' = strip_kept_functions(output_lines)
    /\ pc' = "pass4b"
    /\ UNCHANGED << lines, passes, func_map, to_remove, visited, changed, remaining_gui,
                    can_remove, post_func_map, post_orphans >>

Pass4b ==
    /\ pc = "pass4b"
    /\ output_lines' = clean_widget(output_lines)
    /\ post_func_map' = build_function_map(output_lines')
    /\ post_orphans' = {}
    /\ visited' = {}
    /\ changed' = FALSE
    /\ pc' = "sweep"
    /\ passes' = [passes EXCEPT !.sweep = 1]
    /\ UNCHANGED << lines, func_map, to_remove, remaining_gui, can_remove >>

SweepVisit ==
    /\ pc = "sweep"
    /\ \E name \in DOMAIN post_func_map \ visited :
        /\ visited' = visited \cup {name}
        /\ IF /\ sweep_candidate(name, post_orphans)
              /\ function_body_has_gui_tokens(output_lines, post_func_map[name].start,
                                              post_func_map[name].end)
              /\ ~has_external_ref(name, output_lines, post_func_map, post_orphans)
           THEN post_orphans' = post_orphans \cup {name} /\ changed' = TRUE
           ELSE UNCHANGED << post_orphans, changed >>
    /\ UNCHANGED << lines, passes, pc, func_map, to_remove, remaining_gui, can_remove,
                    output_lines, post_func_map >>

SweepEndPass ==
    /\ pc = "sweep"
    /\ visited = DOMAIN post_func_map
    /\ visited' = {}
    /\ changed' = FALSE
    /\ pc' = IF loop_again(changed) THEN "sweep" ELSE "pass5"
    /\ passes' = IF loop_again(changed)
                  THEN [passes EXCEPT !.sweep = @ + 1]
                  ELSE passes
    /\ UNCHANGED << lines, func_map, to_remove, remaining_gui, can_remove,
                    output_lines, post_func_map, post_orphans >>

Pass5 ==
    /\ pc = "pass5"
    /\ to_remove' = to_remove \cup post_orphans
    /\ output_lines' = remove_orphans(output_lines, post_orphans)
    /\ pc' = "pass6"
    /\ UNCHANGED << lines, passes, func_map, visited, changed, remaining_gui, can_remove,
                    post_func_map, post_orphans >>

Pass6 ==
    /\ pc = "pass6"
    /\ output_lines' = clean_lines(output_lines)
    /\ pc' = "pass7"
    /\ UNCHANGED << lines, passes, func_map, to_remove, visited, changed, remaining_gui,
                    can_remove, post_func_map, post_orphans >>

Pass7 ==
    /\ pc = "pass7"
    /\ output_lines' = final_lines(output_lines)
    /\ pc' = "done"
    /\ UNCHANGED << lines, passes, func_map, to_remove, visited, changed, remaining_gui,
                    can_remove, post_func_map, post_orphans >>

Next ==
    \/ BuildFunctionMap
    \/ Phase1Visit \/ Phase1End
    \/ Phase2Visit \/ Phase2EndPass
    \/ Phase3Collect \/ Phase3Visit \/ Phase3Update
    \/ Phase4Visit \/ Phase4EndPass
    \/ Pass2 \/ Pass3 \/ Pass4 \/ Pass4b
    \/ SweepVisit \/ SweepEndPass
    \/ Pass5 \/ Pass6 \/ Pass7

Spec == Init /\ [][Next]_vars

\* the steps of the call of find_all_functions_to_remove
find_all_functions_to_remove ==
    \/ Phase1Visit \/ Phase1End
    \/ Phase2Visit \/ Phase2EndPass
    \/ Phase3Collect \/ Phase3Visit \/ Phase3Update
    \/ Phase4Visit \/ Phase4EndPass

\* the steps of the orphan-sweep loop of Pass 5
orphan_sweep == SweepVisit \/ SweepEndPass

\* the files whose definitions are all closed: the function map, and so the
\* loops, see every function of them
InitLoops ==
    /\ \E d \in DeclItems \cup {<<>>}, h \in HelperItems \cup {<<>>},
          w \in DrawItems \cup {<<>>}, g \in GuiInitItems \cup {<<>>},
          p \in ProcessItems \cup {<<>>} :
            /\ Count(<<d, h, w, g, p>>) <= MaxItems
            /\ SameLinkage(d, w)
            /\ SameLinkage(d, g)
            /\ lines = WithIds(d \o h \o w \o g \o p)
    /\ pc = "map"
    /\ output_lines = <<>>
    /\ Fresh

\* The script is one sequential process: a loop that has a next step to take
\* takes it.
FairSpec ==
    InitLoops /\ [][Next]_vars
              /\ WF_vars(find_all_functions_to_remove) /\ WF_vars(orphan_sweep)

\* ---------------------------------------------------------------------------
\* The rewriter on its own: Pass 4 applied to a file that holds one function,
\* process, whose body is a sequence of at most MaxStmts statements.
\* ---------------------------------------------------------------------------

Kw(l) == [l EXCEPT !.role = "kw"]

\* ifline "  {" "    draw(self);" "  }"
IfBlock(ifline) == <<ifline, Kw(Open(2)), [Call("draw", 4) EXCEPT !.role = "A"],
                     Kw(Close(2))>>

\* "  else" "  {" "    compute(x);" "  }"
ElseBlock == <<Else, Kw(Open(2)), [Stmt EXCEPT !.ind = 4, !.role = "B"],
               Kw(Close(2))>>

\* "  if(g) {" "    draw(self);" "  } else {" "    compute(x);" "  }"
IfElseSameLine == <<IfGK, [Call("draw", 4) EXCEPT !.role = "A"], ElseK,
                    [Stmt EXCEPT !.ind = 4, !.role = "B"], Kw(Close(2))>>

\* "  for(int k = 0; k < n; k++)" "  {" "    compute(x);" "  }"
Loop == <<For, Open(2), [Stmt EXCEPT !.ind = 4], Close(2)>>

Statements ==
    { <<Stmt>>, <<Bind>>, <<GMut>>, <<CastMut>>, <<IfRes1("draw")>>,
      <<[IfResCall("draw") EXCEPT !.role = "ifnb"]>>, Loop, IfElseSameLine }
    \cup { IfBlock(l) : l \in {IfRes, IfG, IfGAnd, IfAndG} }
    \cup { IfBlock(l) \o ElseBlock : l \in {IfRes, IfG, IfGAnd, IfAndG} }

RECURSIVE Flatten(_, _)
Flatten(stmts, k) ==
    IF k > Len(stmts) THEN <<>> ELSE Grp(stmts[k], k) \o Flatten(stmts, k + 1)

RwBodies ==
    { Flatten(stmts, 1) : stmts \in UNION { [1..n -> Statements] : n \in 0..MaxStmts } }

InitRw ==
    /\ \E body \in RwBodies : lines = WithIds(Def("process", FALSE, body))
    /\ output_lines = lines
    /\ pc = "pass4"
    /\ Fresh

NextRw == Pass4

SpecRw == InitRw /\ [][NextRw]_vars

\* ---------------------------------------------------------------------------
\* Properties
\* ---------------------------------------------------------------------------

\* the line, unchanged, is in the text
Present(text, line) == \E k \in 1..Len(text) : text[k] = line

\* the signature lines of the definitions (not the declarations) of the input
SigLines == { i \in 1..Len(lines) : lines[i].role = "sig" }

\* C1 (protection invariant): Pass 2 omits no line of the definition of a
\* protected function, and the signature line and the braces of its block are
\* still in the text after Pass 5 and in the final output.
C1_ProtectedSpansKept ==
    /\ pc = "pass3" =>
          \A i \in 1..Len(lines) :
              (lines[i].owner \in KEEP_FUNCTIONS /\ lines[i].role # "decl")
                  => Present(output_lines, lines[i])
    /\ pc \in {"pass6", "done"} =>
          \A i \in 1..Len(lines) :
              (lines[i].owner \in KEEP_FUNCTIONS
               /\ lines[i].role \in {"sig", "open", "close"})
                  => Present(output_lines, lines[i])

\* every whole-word occurrence of b is inside the span of a or the span of b
OnlyReferencedWithin(b, a) ==
    \A j \in 1..Len(lines) :
        b \in lines[j].words => InSpan(func_map, a, j) \/ InSpan(func_map, b, j)

\* C2 (cascade removal): when the run is over, a static, unprotected function
\* b referenced only from inside a removed function a (and itself) is in the
\* removal set and none of the lines of its definition is in the output.
C2_CascadeRemoval ==
    pc = "done" =>
        \A a \in DOMAIN func_map, b \in DOMAIN func_map :
            ( /\ a # b
              /\ func_map[b].is_static
              /\ b \notin KEEP_FUNCTIONS
              /\ a \in to_remove
              /\ OnlyReferencedWithin(b, a) )
            => /\ b \in to_remove
               /\ \A j \in func_map[b].start..func_map[b].end :
                      lines[j].id \notin Ids(output_lines)

\* C3 (forward-declaration consistency): no line of a forward declaration of
\* a removed name is in the final output, and after Passes 2 and 3 every line
\* that belongs neither to a declaration, nor to a removed function, nor to a
\* GUI-only include or type block is still in the text.
C3_ForwardDeclsOfRemovedDropped ==
    /\ pc = "done" =>
          \A i \in 1..Len(lines) :
              (lines[i].role = "decl" /\ lines[i].owner \in to_remove)
                  => lines[i].id \notin Ids(output_lines)
    /\ pc = "pass4" =>
          \A i \in 1..Len(lines) :
              (lines[i].role \notin {"decl", "gui"} /\ lines[i].owner \notin to_remove)
                  => Present(output_lines, lines[i])

\* C4 (fail-open): a definition whose block never closes is not in the function
\* map, its name is never in the removal set, and every line from its signature
\* to the end of the file is unchanged in the final output.
C4_UnclosedLeftAlone ==
    \A i \in SigLines :
        find_brace_block_end(lines, i) = NoEnd =>
            /\ lines[i].sig \notin DOMAIN func_map
            /\ lines[i].sig \notin to_remove \cup post_orphans
            /\ pc = "done" =>
                  \A j \in i..Len(lines) : Present(output_lines, lines[j])

\* the lines of a function that belong to no resource-keyed statement
Unrelated(line) == line.role \in {"sig", "open", "close", "other"}

\* C5 (rewrite locality): Pass 4 emits the lines that belong to no
\* resource-keyed statement unchanged and in their order.  (Under SpecRw the
\* text given to Pass 4 is lines.)
C5_RewriteLocality ==
    pc = "pass4b" => SelectSeq(output_lines, Unrelated) = SelectSeq(lines, Unrelated)

\* the removal set find_all_functions_to_remove is to return, computed by
\* adding, round after round, all the names a round finds at once
RECURSIVE Closure(_, _, _, _)
Closure(text, fm, rm, need_tokens) ==
    LET add == { n \in DOMAIN fm \ rm :
                   /\ n \notin KEEP_FUNCTIONS
                   /\ fm[n].is_static
                   /\ need_tokens =>
                        function_body_has_gui_tokens(text, fm[n].start, fm[n].end)
                   /\ ~has_external_ref(n, text, fm, rm) }
    IN  IF add = {} THEN rm ELSE Closure(text, fm, rm \cup add, need_tokens)

ExpectedRemoval(text, fm) ==
    LET seed == { n \in DOMAIN fm :
                    n \notin KEEP_FUNCTIONS /\ is_explicitly_gui_function(n) }
        two == Closure(text, fm, seed, TRUE)
        cluster == { n \in DOMAIN fm \ two :
                       /\ n \notin KEEP_FUNCTIONS
                       /\ fm[n].is_static
                       /\ function_body_has_gui_tokens(text, fm[n].start, fm[n].end) }
        three == two \cup { n \in cluster :
                              ~has_external_ref(n, text, fm, two \cup cluster) }
    IN  Closure(text, fm, three, FALSE)

RECURSIVE ExpectedOrphans(_, _, _)
ExpectedOrphans(text, fm, orphans) ==
    LET add == { n \in DOMAIN fm \ orphans :
                   /\ n \notin KEEP_FUNCTIONS
                   /\ function_body_has_gui_tokens(text, fm[n].start, fm[n].end)
                   /\ ~has_external_ref(n, text, fm, orphans) }
    IN  IF add = {} THEN orphans ELSE ExpectedOrphans(text, fm, orphans \cup add)

\* C6 (order independence): whatever order the loops visit the functions in,
\* find_all_functions_to_remove returns one and the same set, and the orphan
\* sweep ends with one and the same set.
C6_OrderIndependent ==
    /\ pc = "pass2" => to_remove = ExpectedRemoval(lines, func_map)
    /\ pc = "pass5" => post_orphans = ExpectedOrphans(output_lines, post_func_map, {})

\* C6, witness: the classifier has returned a set with a name in it that is
\* referenced from outside its own span, so it could only be added once its
\* referrer had been; and the sweep has ended with such a name too.
C6_Witness ==
    /\ pc = "pass5"
    /\ \E n \in to_remove :
          /\ ~is_explicitly_gui_function(n)
          /\ has_external_ref(n, lines, func_map, {})
    /\ Cardinality(DOMAIN post_func_map) >= 2
    /\ post_orphans # {}

\* C7 (monotonicity): no step of a run takes a name out of the removal set.
C7_Monotone == [][to_remove \subseteq to_remove']_vars

\* C7, witness: the sweep's set has been merged into a removal set that
\* Phase 1 and a later phase of the classifier had each added to.
C7_Witness ==
    /\ pc = "pass6"
    /\ post_orphans # {}
    /\ \E n \in to_remove \ post_orphans : is_explicitly_gui_function(n)
    /\ \E n \in to_remove \ post_orphans : ~is_explicitly_gui_function(n)

\* C8: no protected name is ever in the removal set, in Phase 3's can_remove
\* or in the sweep's post_orphans.
C8_ProtectedNeverRemoved ==
    (to_remove \cup can_remove \cup post_orphans) \cap KEEP_FUNCTIONS = {}

\* C8, witness: the sweep has ended, it added a name, and a protected function
\* with a GUI token in its body and no reference from outside was among the
\* functions it visited.
C8_Witness ==
    /\ pc = "pass5"
    /\ post_orphans # {}
    /\ \E n \in DOMAIN post_func_map \cap KEEP_FUNCTIONS :
          /\ function_body_has_gui_tokens(output_lines, post_func_map[n].start,
                                          post_func_map[n].end)
          /\ ~has_external_ref(n, output_lines, post_func_map, post_orphans)

\* C9 (linkage restriction): a function defined without static whose name is
\* no GUI name and has no GUI prefix is never in the removal set nor in the
\* sweep's set.
C9_ExternalNeverRemoved ==
    \A i \in SigLines :
        (~lines[i].static /\ ~is_explicitly_gui_function(lines[i].sig))
            => lines[i].sig \notin to_remove \cup post_orphans

\* the statements of the function that are an if/else keyed on the resource:
\* on self->gui_data, or on a variable bound to it earlier in the function
KeyedIfElse ==
    { g \in { lines[i].grp : i \in 1..Len(lines) } :
        /\ \E i \in 1..Len(lines) : lines[i].grp = g /\ lines[i].role = "B"
        /\ \E i \in 1..Len(lines) :
              /\ lines[i].grp = g
              /\ \/ lines[i].pat = "ifres"
                 \/ /\ lines[i].pat \in {"ifg", "ifgand", "ifandg"}
                    /\ \E j \in 1..(i - 1) :
                          lines[j].pat = "bind" /\ lines[j].var = lines[i].var }

\* the indentation of the if that opens statement g
IfIndent(g) ==
    lines[CHOOSE i \in 1..Len(lines) :
            lines[i].grp = g
            /\ lines[i].pat \in {"ifres", "ifg", "ifgand", "ifandg"}].ind

\* C10 (else-only-survives): of an if/else keyed on the resource, Pass 4 emits
\* the lines of the else body at the indentation of the if, and none of the
\* lines of the if body, of the if and else keywords and of their braces.
C10_ElseOnlySurvives ==
    pc = "pass4b" =>
        \A g \in KeyedIfElse :
            \A i \in { j \in 1..Len(lines) : lines[j].grp = g } :
                IF lines[i].role = "B"
                THEN Present(output_lines, [lines[i] EXCEPT !.ind = IfIndent(g)])
                ELSE lines[i].id \notin Ids(output_lines)

\* the static, unprotected functions with a GUI token in their body that are
\* not in the removal set
Cluster ==
    { n \in DOMAIN func_map :
        /\ func_map[n].is_static
        /\ n \notin KEEP_FUNCTIONS
        /\ n \notin to_remove
        /\ function_body_has_gui_tokens(lines, func_map[n].start, func_map[n].end) }

\* line j lies outside the span of n, the spans of the members of the cluster
\* and the spans of the removed functions
OutsideCluster(n, j) ==
    /\ ~InSpan(func_map, n, j)
    /\ \A m \in Cluster \cup to_remove : m \in DOMAIN func_map => ~InSpan(func_map, m, j)

\* the name n occurs as a whole word on a line outside
OutsideOccurrence(n) ==
    \E j \in 1..Len(lines) : OutsideCluster(n, j) /\ n \in lines[j].words

\* the same, the one-line static forward declarations of n not counted
OutsideReference(n) ==
    \E j \in 1..Len(lines) :
        OutsideCluster(n, j) /\ n \in lines[j].words /\ lines[j].decl # n

\* the step that ends Phase 3 (the cluster is not empty)
EndsPhase3 == pc = "phase3visit" /\ pc' = "phase4"

\* C11 (mutual-reference cluster removal), as stated: Phase 3 adds exactly the
\* members of the cluster whose name occurs on no line outside their own
\* span, the spans of the other members and the spans of the removed
\* functions.
C11_ClusterRemoval_AsStated ==
    [][EndsPhase3 =>
          \A n \in Cluster : (n \in to_remove') <=> ~OutsideOccurrence(n)]_vars

\* C11, amended: Phase 3 adds exactly the members of the cluster whose name
\* occurs on no line outside their own span, the spans of the other members
\* and the spans of the removed functions, other than their own one-line
\* static forward declarations; so all of the cluster is removed when this
\* holds of every member.
C11_ClusterRemoval ==
    [][EndsPhase3 =>
          /\ \A n \in Cluster : (n \in to_remove') <=> ~OutsideReference(n)
          /\ (\A n \in Cluster : ~OutsideReference(n)) => Cluster \subseteq to_remove'
          /\ to_remove' \ to_remove \subseteq Cluster]_vars

\* C11, witness: Phase 3 has ended on a cluster of two functions that refer
\* to each other; it added one of them, and it left out the other, which is
\* referenced from a function that stays.
C11_Witness ==
    /\ pc = "phase4" /\ visited = {} /\ ~changed
    /\ Cardinality(remaining_gui) = 2
    /\ \E a \in remaining_gui, b \in remaining_gui :
          /\ a \in to_remove /\ a \in can_remove
          /\ b \notin to_remove
          /\ \E j \in func_map[b].start..func_map[b].end : a \in lines[j].words
          /\ has_external_ref(b, lines, func_map, DOMAIN func_map \ {"process"})

\* the names Phase 2 and Phase 4 added to the set the classifier returns:
\* those that neither Phase 1 nor Phase 3 added
AddedByPhase2Or4 ==
    { n \in to_remove : ~is_explicitly_gui_function(n) /\ n \notin can_remove }

\* line j lies in the span of a function of the removal set
InRemovedSpan(j) ==
    \E m \in to_remove : m \in DOMAIN func_map /\ InSpan(func_map, m, j)

\* C12 (no dangling reference from kept code): when
\* find_all_functions_to_remove returns, the name of a function that Phase 2
\* or Phase 4 added occurs on no line outside the spans of the removed
\* functions, its own static forward declaration apart; so no function that
\* stays has a line with the name of such a function on it.
C12_NoDanglingReference ==
    pc = "pass2" =>
        \A n \in AddedByPhase2Or4 :
            /\ \A j \in 1..Len(lines) :
                  (n \in lines[j].words /\ lines[j].decl # n) => InRemovedSpan(j)
            /\ \A k \in DOMAIN func_map \ to_remove :
                  \A j \in func_map[k].start..func_map[k].end :
                      n \notin lines[j].words

\* C12, witness: the classifier has returned; Phase 2 added a function with
\* a GUI token and Phase 4 one without, and each of the two is called from
\* the body of another function, which is removed.
C12_Witness ==
    /\ pc = "pass2"
    /\ \E a \in AddedByPhase2Or4, b \in AddedByPhase2Or4 :
          /\ function_body_has_gui_tokens(lines, func_map[a].start, func_map[a].end)
          /\ ~function_body_has_gui_tokens(lines, func_map[b].start, func_map[b].end)
          /\ has_external_ref(a, lines, func_map, {})
          /\ has_external_ref(b, lines, func_map, {})

\* no loop has entered its body more often than there are functions, plus one
PassBound ==
    /\ passes.phase2 <= Cardinality(DOMAIN func_map) + 1
    /\ passes.phase4 <= Cardinality(DOMAIN func_map) + 1
    /\ passes.sweep <= Cardinality(DOMAIN post_func_map) + 1

\* a loop that has stopped has left no name that one more pass would add
StoppedAtFixedPoint ==
    /\ pc = "phase3" =>
          \A n \in DOMAIN func_map :
              ( /\ n \notin to_remove /\ n \notin KEEP_FUNCTIONS
                /\ func_map[n].is_static
                /\ function_body_has_gui_tokens(lines, func_map[n].start,
                                                func_map[n].end) )
              => has_external_ref(n, lines, func_map, to_remove)
    /\ pc = "pass2" =>
          \A n \in DOMAIN func_map :
              ( /\ n \notin to_remove /\ n \notin KEEP_FUNCTIONS
                /\ func_map[n].is_static )
              => has_external_ref(n, lines, func_map, to_remove)
    /\ pc = "pass5" =>
          \A n \in DOMAIN post_func_map :
              ( /\ n \notin post_orphans /\ n \notin KEEP_FUNCTIONS
                /\ function_body_has_gui_tokens(output_lines,
                                                post_func_map[n].start,
                                                post_func_map[n].end) )
              => has_external_ref(n, output_lines, post_func_map, post_orphans)

\* C13 (termination): each of the Phase 2 loop, the Phase 4 loop and the
\* orphan-sweep loop makes at most (number of functions + 1) passes and stops
\* after a pass that adds no name, so that find_all_functions_to_remove,
\* once called, returns, and the orphan sweep, once begun, ends.
C13_Termination ==
    /\ [](PassBound /\ StoppedAtFixedPoint)
    /\ (pc = "phase1") ~> (pc = "pass2")
    /\ (pc = "sweep") ~> (pc = "pass5")

\* C13, witness: the sweep has ended after as many passes as it had functions
\* to visit, plus one, the last of which added nothing, in a run where the
\* Phase 2 loop too made a pass that added a name and the Phase 4 loop has run.
C13_Witness ==
    /\ pc = "pass5"
    /\ passes.phase2 >= 2
    /\ passes.phase4 >= 1
    /\ post_orphans # {}
    /\ passes.sweep = Cardinality(DOMAIN post_func_map) + 1

====
